---------------------------- MODULE Spec2Model ----------------------------
(***************************************************************************)
(* A model of rplugin/python3/deoplete/parent.py: the AsyncParent          *)
(* dispatcher, which sends msgpack envelopes to a child process over its   *)
(* stdin and polls the child's answers to merge_results.                   *)
(*                                                                         *)
(* The host side is single threaded (one asyncio event loop), so every     *)
(* method call and every stream callback is one atomic action.             *)
(*                                                                         *)
(* Encoding of Python values:                                              *)
(*   - a queue_id is str(time.time()); the clock reading is a natural      *)
(*     number >= 1 and str() is injective on clock readings, so the id is  *)
(*     modelled by the reading itself.  NoId (0) stands for both '' and    *)
(*     None, the two falsy values the code uses for "no id".               *)
(*   - a position is a natural number >= 1; NoPos (0) stands for [], the   *)
(*     initial value of _prev_pos, which no context carries.               *)
(*   - an element of an envelope's args is a record with the fields path,  *)
(*     event and position (a path/custom value has only path set, a        *)
(*     context has event and position set).                                *)
(*   - a decoded frame is a record: mapping says whether it is a dict,     *)
(*     keys is the set of keys the dict has, and the three value fields    *)
(*     are meaningful only for the keys present.                           *)
(***************************************************************************)
EXTENDS Naturals, Sequences, FiniteSets

VARIABLES
    launch,             \* outcome of loop.subprocess_exec: "ok" or "failed"
    hnd,                \* self._hnd is truthy
    stdin,              \* self._stdin is set (Process.connection_made ran)
    queue_id,           \* self._queue_id
    prev_pos,           \* self._prev_pos
    queue_in,           \* self._queue_in: packed envelopes not yet written,
                        \*   each tagged with its issue number
    queue_out,          \* self._queue_out: decoded frames from child stdout
    queue_err,          \* self._queue_err: text from child stderr
    loaded_filters,     \* self._loaded_filters
    is_debug_enabled,   \* self.is_debug_enabled
    now,                \* the latest reading of time.time()
    nissued,            \* history: number of envelopes _put has packed
    nwritten,           \* history: number of envelopes the child's stdin accepted
    used_ids,           \* history: the queue_ids _put has generated
    answerable,         \* child: queue_ids of the merge_results envelopes it has
                        \*   read and not answered
    last_merge_id,      \* history: queue_id of the latest merge_results envelope
    broken,             \* history: a write to stdin has raised BrokenPipeError
    ff_ids,             \* history: the queue_ids of the envelopes of the calls
                        \*   that only dispatch
    abandoned,          \* history: the pending ids a merge_results call with
                        \*   another position found tracked
    nchild,             \* child: number of frames and texts it has emitted
    ncalls,             \* history: number of method calls made
    lastCall            \* history: what the most recent method call did

vars == <<launch, hnd, stdin, queue_id, prev_pos, queue_in, queue_out,
          queue_err, loaded_filters, is_debug_enabled, now, nissued,
          nwritten, used_ids, answerable, last_merge_id, broken, ff_ids,
          abandoned, nchild, ncalls, lastCall>>

-----------------------------------------------------------------------------
(* Bounds *)

\* method calls made by the host in one behaviour
MaxCalls == 2

\* frames and stderr texts emitted by the child in one behaviour
MaxChild == 1

\* envelopes buffered in _queue_in before stdin is connected
MaxQueue == 2

-----------------------------------------------------------------------------
(* Values *)

NoId == 0

NoPos == 0

Events == {"Async", "TextChangedI"}

Positions == {1, 2}

Paths == {"a", "b"}

Sources == {"s"}

Customs == {"custom"}

\* The text the child writes to stderr as its n-th emission.  The texts are opaque to the
\* parent; they are all different, so that their order shows.
ErrText(n) == <<"stderr text", n>>

AllKeys == {"queue_id", "is_async", "merged_results"}

PathArg(p) == [path |-> p, event |-> "", position |-> NoPos]

Context(e, p) == [path |-> "", event |-> e, position |-> p]

Contexts == {Context(e, p) : e \in Events, p \in Positions}

\* The contexts given to set_source_attributes and on_event, which pass them on
\* without reading them
UserContexts == {Context("TextChangedI", 1)}

Envelope(name, args, qid) == [name |-> name, args |-> args, queue_id |-> qid]

Frame(m, ks, qid, a, r) ==
    [mapping |-> m, keys |-> ks, queue_id |-> qid, is_async |-> a,
     merged_results |-> r]

NonMapping == Frame(FALSE, {}, NoId, FALSE, <<>>)

\* An empty dict, which has no 'queue_id' key
EmptyMapping == Frame(TRUE, {}, NoId, FALSE, <<>>)

\* The frames the child can emit for the request with id q: an answer, or a
\* dict with the id that lacks one of the two result keys.
Answers(q) ==
    {Frame(TRUE, AllKeys, q, FALSE, <<"foo", "bar">>),
     Frame(TRUE, AllKeys, q, TRUE, <<>>),
     Frame(TRUE, {"queue_id", "merged_results"}, q, FALSE, <<"foo", "bar">>),
     Frame(TRUE, {"queue_id", "is_async"}, q, FALSE, <<>>)}

\* Frames that answer no request: stdout contaminated by a source's print
Contaminations == {NonMapping, EmptyMapping}

NoRet == <<>>

\* The record of a method call, as it starts: hnd0, queue_id0 and prev_pos0 are
\* _hnd, _queue_id and _prev_pos when the call is entered.
Call(op, ctx) ==
    [op |-> op, event |-> ctx.event, position |-> ctx.position,
     hnd0 |-> hnd, queue_id0 |-> queue_id, prev_pos0 |-> prev_pos,
     put |-> FALSE, put_id |-> NoId, enq |-> <<>>, wrote |-> <<>>,
     lost |-> <<>>, fetched |-> NoId, drained |-> FALSE, outs |-> <<>>,
     raised |-> "none", ret |-> NoRet, shown |-> <<>>]

NoContext == Context("", NoPos)

-----------------------------------------------------------------------------
(* Host error display: error_tb() and error() of deoplete.util *)

Msg(kind, text) == [kind |-> kind, text |-> text]

\* Process.read_error(): the child's buffered stderr text; it returns a value
\* and does not raise.
read_error == "buffered stderr"

CrashMessages ==
    <<Msg("error_tb", <<"Crash in child process">>),
      Msg("error", <<"stderr=", read_error>>)>>

ContaminatedMessage ==
    Msg("error_tb", <<"\"stdout\" seems contaminated by sources. ",
                      "\"stdout\" is used for RPC; Please pipe or discard">>)

\* _print_error(message) for every queued stderr text, in queue order
PrintErrors(errs) == [i \in 1..Len(errs) |-> Msg("error", errs[i])]

-----------------------------------------------------------------------------
(* AsyncParent._put *)

\* An entry of _queue_in: the packed envelope and its issue number
Tagged(msg, n) == [msg |-> msg, seq |-> n]

\* The issue numbers of a sequence of _queue_in entries
Tags(q) == [i \in 1..Len(q) |-> q[i].seq]

\* Mutant: the buffered envelopes are written newest first
WriteLoop_Lifo(q, fail) ==
    LET r == [i \in 1..Len(q) |-> q[Len(q) + 1 - i]]
    IN  IF fail \in 1..Len(q)
        THEN [hnd |-> FALSE,
              queue_in |-> SubSeq(r, fail + 1, Len(r)),
              wrote |-> SubSeq(r, 1, fail - 1),
              lost |-> <<r[fail]>>,
              shown |-> CrashMessages]
        ELSE [hnd |-> hnd,
              queue_in |-> <<>>,
              wrote |-> r,
              lost |-> <<>>,
              shown |-> <<>>]

\* The write loop: while not _queue_in.empty(): _stdin.write(_queue_in.get_nowait())
\* q is the content of _queue_in; fail is the index of the write that raises
\* BrokenPipeError (0 or an index past the end: no write raises).
WriteLoop(q, fail) ==
    IF fail \in 1..Len(q)
    THEN [hnd |-> FALSE,
          queue_in |-> SubSeq(q, fail + 1, Len(q)),
          wrote |-> SubSeq(q, 1, fail - 1),
          lost |-> <<q[fail]>>,
          shown |-> CrashMessages]
    ELSE [hnd |-> hnd,
          queue_in |-> <<>>,
          wrote |-> q,
          lost |-> <<>>,
          shown |-> <<>>]

\* The body of _put past its guard.  t is the reading time.time() gives this
\* call.  id: the value returned; enq: what was put in _queue_in; wrote: what
\* _stdin.write accepted, in order; lost: the entry whose write raised;
\* time: the latest clock reading.
Send(name, args, t, fail) ==
    LET msg == Tagged(Envelope(name, args, t), nissued + 1)
        q == Append(queue_in, msg)
        w == IF stdin
             THEN WriteLoop(q, fail)
             ELSE [hnd |-> hnd, queue_in |-> q, wrote |-> <<>>,
                   lost |-> <<>>, shown |-> <<>>]
    IN  [id |-> t, hnd |-> w.hnd, queue_in |-> w.queue_in,
         enq |-> <<msg>>, wrote |-> w.wrote, lost |-> w.lost,
         shown |-> w.shown, time |-> t]

\* Nothing sent: the state _put owns is left as it is
NoPut(qid) ==
    [id |-> qid, hnd |-> hnd, queue_in |-> queue_in, enq |-> <<>>,
     wrote |-> <<>>, lost |-> <<>>, shown |-> <<>>, time |-> now]

\* Mutant: _put without its "if not self._hnd: return None"
_put_unguarded(name, args, t, fail) == Send(name, args, t, fail)

_put(name, args, t, fail) ==
    IF ~hnd THEN NoPut(NoId) ELSE Send(name, args, t, fail)

-----------------------------------------------------------------------------
(* AsyncParent._get *)

\* x['queue_id'] for a decoded frame x
Subscript(x, key) ==
    IF ~x.mapping THEN "TypeError"
    ELSE IF key \notin x.keys THEN "KeyError"
    ELSE "ok"

\* Used by a mutant of _get: x is a dict with a 'queue_id' key
HasQueueId(x) == x.mapping /\ "queue_id" \in x.keys

\* Mutant: the comprehension keeps the frames of the other ids
Matching_NotEqual(outs, qid) ==
    LET bad == {i \in 1..Len(outs) : Subscript(outs[i], "queue_id") # "ok"}
        first == CHOOSE i \in bad : \A j \in bad : i <= j
    IN  IF bad = {}
        THEN [exc |-> "none",
              res |-> SelectSeq(outs, LAMBDA x : x.queue_id # qid)]
        ELSE [exc |-> Subscript(outs[first], "queue_id"), res |-> <<>>]

\* [x for x in outs if x['queue_id'] == queue_id] inside try/except TypeError:
\* the first frame, in queue order, whose subscript raises decides the outcome.
Matching(outs, qid) ==
    LET bad == {i \in 1..Len(outs) : Subscript(outs[i], "queue_id") # "ok"}
        first == CHOOSE i \in bad : \A j \in bad : i <= j
    IN  IF bad = {}
        THEN [exc |-> "none",
              res |-> SelectSeq(outs, LAMBDA x : x.queue_id = qid)]
        ELSE [exc |-> Subscript(outs[first], "queue_id"), res |-> <<>>]

\* Mutant: _get without its "except TypeError"
_get_Uncaught(qid, hndNow) ==
    IF ~hndNow
    THEN [res |-> <<>>, exc |-> "none", drained |-> FALSE, outs |-> <<>>,
          queue_out |-> queue_out, queue_err |-> queue_err, shown |-> <<>>]
    ELSE LET m == Matching(queue_out, qid)
         IN  [res |-> m.res,
              exc |-> m.exc,
              drained |-> TRUE,
              outs |-> queue_out,
              queue_out |-> <<>>,
              queue_err |-> <<>>,
              shown |-> PrintErrors(queue_err)]

\* Mutant: the frames of the other ids stay in _queue_out
_get_KeepsUnmatched(qid, hndNow) ==
    IF ~hndNow
    THEN [res |-> <<>>, exc |-> "none", drained |-> FALSE, outs |-> <<>>,
          queue_out |-> queue_out, queue_err |-> queue_err, shown |-> <<>>]
    ELSE LET m == Matching(queue_out, qid)
         IN  [res |-> m.res,
              exc |-> IF m.exc = "TypeError" THEN "none" ELSE m.exc,
              drained |-> TRUE,
              outs |-> queue_out,
              queue_out |-> SelectSeq(queue_out,
                                      LAMBDA x : HasQueueId(x) /\ x.queue_id # qid),
              queue_err |-> <<>>,
              shown |-> PrintErrors(queue_err) \o
                        (IF m.exc = "TypeError" THEN <<ContaminatedMessage>> ELSE <<>>)]

\* hndNow is self._hnd when _get is entered (a _put of the same call may have
\* cleared it).  res: the list returned; exc: the exception that leaves _get;
\* outs: the frames taken from _queue_out; shown: what the host displayed.
_get(qid, hndNow) ==
    IF ~hndNow
    THEN [res |-> <<>>, exc |-> "none", drained |-> FALSE, outs |-> <<>>,
          queue_out |-> queue_out, queue_err |-> queue_err, shown |-> <<>>]
    ELSE LET m == Matching(queue_out, qid)
         IN  [res |-> m.res,
              exc |-> IF m.exc = "TypeError" THEN "none" ELSE m.exc,
              drained |-> TRUE,
              outs |-> queue_out,
              queue_out |-> <<>>,
              queue_err |-> <<>>,
              shown |-> PrintErrors(queue_err) \o
                        (IF m.exc = "TypeError" THEN <<ContaminatedMessage>> ELSE <<>>)]

-----------------------------------------------------------------------------
(* AsyncParent.merge_results *)

\* Mutant: the position test is inverted
UsePreviousId_OtherPosition(context) ==
    /\ context.event = "Async"
    /\ context.position # prev_pos
    /\ queue_id # NoId

\* Mutant: the event test is missing
UsePreviousId_AnyEvent(context) ==
    /\ context.position = prev_pos
    /\ queue_id # NoId

\* "Use previous id": the condition of the first if
UsePreviousId(context) ==
    /\ context.event = "Async"
    /\ context.position = prev_pos
    /\ queue_id # NoId

\* Mutant: a dict is falsy
Truthy_NoDict(x) == ~x.mapping

\* bool(results) for the first matching frame
Truthy(x) == x.mapping => x.keys # {}

\* Mutant: the second element is not the frame's is_async
Response_SecondFalse(results) ==
    IF ~Truthy(results)
    THEN [raised |-> "none", ret |-> <<FALSE, <<>>>>]
    ELSE IF Subscript(results, "is_async") # "ok"
    THEN [raised |-> Subscript(results, "is_async"), ret |-> NoRet]
    ELSE IF Subscript(results, "merged_results") # "ok"
    THEN [raised |-> Subscript(results, "merged_results"), ret |-> NoRet]
    ELSE [raised |-> "none",
          ret |-> <<results.is_async, FALSE, results.merged_results>>]

\* The returned expression
\*   (results['is_async'], results['is_async'], results['merged_results'])
\*       if results else (False, [])
Response(results) ==
    IF ~Truthy(results)
    THEN [raised |-> "none", ret |-> <<FALSE, <<>>>>]
    ELSE IF Subscript(results, "is_async") # "ok"
    THEN [raised |-> Subscript(results, "is_async"), ret |-> NoRet]
    ELSE IF Subscript(results, "merged_results") # "ok"
    THEN [raised |-> Subscript(results, "merged_results"), ret |-> NoRet]
    ELSE [raised |-> "none",
          ret |-> <<results.is_async, results.is_async, results.merged_results>>]

\* Mutant: the id is not remembered
StillAsync_NotRecorded(qid, context) ==
    [queue_id |-> NoId, prev_pos |-> context.position, ret |-> <<TRUE, FALSE, <<>>>>]

\* The branch taken when _get returned nothing ("Skip the next merge_results")
StillAsync(qid, context) ==
    [queue_id |-> qid, prev_pos |-> context.position, ret |-> <<TRUE, FALSE, <<>>>>]

\* The return taken when _put gave no id
NoProcess == <<FALSE, FALSE, <<>>>>

\* The whole method: the state it leaves and the record of what it did.
merge_results(context, t, fail) ==
    LET reuse == UsePreviousId(context)
        p == IF reuse
             THEN NoPut(queue_id)
             ELSE _put("merge_results", <<context>>, t, fail)
        g == _get(p.id, p.hnd)
        c0 == [Call("merge_results", context) EXCEPT
                  !.put = ~reuse,
                  !.put_id = IF reuse THEN NoId ELSE p.id,
                  !.enq = p.enq, !.wrote = Tags(p.wrote),
                  !.lost = Tags(p.lost), !.shown = p.shown]
        base == [put |-> p, queue_out |-> queue_out, queue_err |-> queue_err,
                 queue_id |-> queue_id, prev_pos |-> prev_pos, call |-> c0]
        c1 == [c0 EXCEPT !.fetched = p.id, !.drained = g.drained,
                         !.outs = g.outs, !.shown = p.shown \o g.shown]
        got == [base EXCEPT !.queue_out = g.queue_out, !.queue_err = g.queue_err]
    IN  IF p.id = NoId
        THEN [base EXCEPT !.call = [c0 EXCEPT !.ret = NoProcess]]
        ELSE IF g.exc # "none"
        THEN [got EXCEPT !.call = [c1 EXCEPT !.raised = g.exc]]
        ELSE IF g.res = <<>>
        THEN LET s == StillAsync(p.id, context)
             IN  [got EXCEPT !.queue_id = s.queue_id, !.prev_pos = s.prev_pos,
                             !.call = [c1 EXCEPT !.ret = s.ret]]
        ELSE LET r == Response(g.res[1])
             IN  [got EXCEPT !.queue_id = NoId,
                             !.call = [c1 EXCEPT !.raised = r.raised,
                                                 !.ret = r.ret]]

-----------------------------------------------------------------------------
(* Initial state: _Parent.__init__ and AsyncParent._start_process *)

Init ==
    /\ launch \in {"ok", "failed"}
    /\ hnd = TRUE
    /\ stdin = FALSE
    /\ queue_id = NoId
    /\ prev_pos = NoPos
    /\ queue_in = <<>>
    /\ queue_out = <<>>
    /\ queue_err = <<>>
    /\ loaded_filters = {}
    /\ is_debug_enabled = FALSE
    /\ now = 1
    /\ nissued = 0
    /\ nwritten = 0
    /\ used_ids = {}
    /\ answerable = {}
    /\ last_merge_id = NoId
    /\ broken = FALSE
    /\ ff_ids = {}
    /\ abandoned = {}
    /\ nchild = 0
    /\ ncalls = 0
    /\ lastCall = Call("__init__", NoContext)

-----------------------------------------------------------------------------
(* Method calls *)

\* What time.time() can give the next call: the clock does not go back, and
\* only the equality of two readings matters, so it gives the latest reading
\* again or the next one.  (The first reading is the latest one.)
Readings == IF now \in used_ids THEN {now, now + 1} ELSE {now}

\* Where the write loop of a call's _put can meet a broken pipe: at any of its
\* writes, or nowhere (0).  It writes only with a live handle and stdin.
FailPoints == IF hnd /\ stdin THEN 0..Len(queue_in) + 1 ELSE {0}

\* A call can be made while the run has calls left and _queue_in, which grows
\* without limit while stdin is not connected, is below its bound.
CanCall ==
    /\ ncalls < MaxCalls
    /\ Len(queue_in) < MaxQueue

MergeIds(q) ==
    {q[i].msg.queue_id : i \in {j \in 1..Len(q) : q[j].msg.name = "merge_results"}}

\* The effect of one _put (p is what it returned and did) on the state _put
\* owns and on the history.
Commit(p) ==
    /\ hnd' = p.hnd
    /\ now' = p.time
    /\ queue_in' = p.queue_in
    /\ nissued' = nissued + Len(p.enq)
    /\ nwritten' = nwritten + Len(p.wrote)
    /\ used_ids' = used_ids \cup {p.enq[i].msg.queue_id : i \in 1..Len(p.enq)}
    /\ answerable' = answerable \cup MergeIds(p.wrote)
    /\ last_merge_id' = IF MergeIds(p.enq) = {} THEN last_merge_id ELSE p.id
    /\ broken' = (broken \/ p.lost # <<>>)
    /\ ff_ids' = ff_ids \cup
                     {p.enq[i].msg.queue_id :
                          i \in {j \in 1..Len(p.enq) : p.enq[j].msg.name # "merge_results"}}

\* Mutant: the dispatching call also empties the inbound frame queue
Dispatch_Draining(name, args, t, fail) ==
    LET p == _put(name, args, t, fail)
    IN  /\ CanCall
        /\ Commit(p)
        /\ ncalls' = ncalls + 1
        /\ lastCall' = [Call(name, NoContext) EXCEPT
                           !.put = TRUE, !.put_id = p.id, !.enq = p.enq,
                           !.wrote = Tags(p.wrote), !.lost = Tags(p.lost),
                           !.shown = p.shown]
        /\ queue_out' = <<>>
        /\ UNCHANGED <<launch, stdin, queue_id, prev_pos, queue_err,
                       abandoned, nchild>>

\* A call that only dispatches: self._put(name, args), the id discarded
Dispatch(name, args, t, fail) ==
    LET p == _put(name, args, t, fail)
    IN  /\ CanCall
        /\ Commit(p)
        /\ ncalls' = ncalls + 1
        /\ lastCall' = [Call(name, NoContext) EXCEPT
                           !.put = TRUE, !.put_id = p.id, !.enq = p.enq,
                           !.wrote = Tags(p.wrote), !.lost = Tags(p.lost),
                           !.shown = p.shown]
        /\ UNCHANGED <<launch, stdin, queue_id, prev_pos, queue_out, queue_err,
                       abandoned, nchild>>

enable_logging ==
    /\ \E t \in Readings, fail \in FailPoints :
           Dispatch("enable_logging", <<>>, t, fail)
    /\ is_debug_enabled' = TRUE
    /\ UNCHANGED loaded_filters

add_source ==
    /\ \E path \in Sources, t \in Readings, fail \in FailPoints :
           Dispatch("add_source", <<PathArg(path)>>, t, fail)
    /\ UNCHANGED <<loaded_filters, is_debug_enabled>>

\* Mutant: add_filter without its "if path in self._loaded_filters: return"
add_filter_Unchecked ==
    \E path \in Paths :
        /\ loaded_filters' = loaded_filters \cup {path}
        /\ \E t \in Readings, fail \in FailPoints :
               Dispatch("add_filter", <<PathArg(path)>>, t, fail)
        /\ UNCHANGED is_debug_enabled

add_filter ==
    \E path \in Paths :
        IF path \in loaded_filters
        THEN /\ CanCall
             /\ ncalls' = ncalls + 1
             /\ lastCall' = Call("add_filter", NoContext)
             /\ UNCHANGED <<launch, hnd, stdin, queue_id, prev_pos, queue_in,
                            queue_out, queue_err, loaded_filters,
                            is_debug_enabled, now, nissued, nwritten, used_ids,
                            answerable, last_merge_id, broken, ff_ids,
                            abandoned, nchild>>
        ELSE /\ loaded_filters' = loaded_filters \cup {path}
             /\ \E t \in Readings, fail \in FailPoints :
                    Dispatch("add_filter", <<PathArg(path)>>, t, fail)
             /\ UNCHANGED is_debug_enabled

set_source_attributes ==
    /\ \E context \in UserContexts, t \in Readings, fail \in FailPoints :
           Dispatch("set_source_attributes", <<context>>, t, fail)
    /\ UNCHANGED <<loaded_filters, is_debug_enabled>>

set_custom ==
    /\ \E custom \in Customs, t \in Readings, fail \in FailPoints :
           Dispatch("set_custom", <<PathArg(custom)>>, t, fail)
    /\ UNCHANGED <<loaded_filters, is_debug_enabled>>

on_event ==
    /\ \E context \in UserContexts, t \in Readings, fail \in FailPoints :
           Dispatch("on_event", <<context>>, t, fail)
    /\ UNCHANGED <<loaded_filters, is_debug_enabled>>

MergeResults ==
    \E context \in Contexts, t \in Readings, fail \in FailPoints :
        LET m == merge_results(context, t, fail)
        IN  /\ CanCall
            /\ Commit(m.put)
            /\ queue_out' = m.queue_out
            /\ queue_err' = m.queue_err
            /\ queue_id' = m.queue_id
            /\ prev_pos' = m.prev_pos
            /\ lastCall' = m.call
            /\ abandoned' = IF queue_id # NoId /\ context.position # prev_pos
                            THEN abandoned \cup {queue_id}
                            ELSE abandoned
            /\ ncalls' = ncalls + 1
            /\ UNCHANGED <<launch, stdin, loaded_filters, is_debug_enabled, nchild>>

-----------------------------------------------------------------------------
(* The environment: the event loop's callbacks.  What the environment does  *)
(* after the last method call of a run is seen by no call, so its actions   *)
(* are enabled only while a call can still follow; and what the child emits *)
(* once the handle is cleared is never read (_get returns before draining), *)
(* so the child emits only while the handle is live.                        *)

\* Process.connection_made -> AsyncParent._connect_stdin
_connect_stdin ==
    /\ ncalls < MaxCalls
    /\ launch = "ok"
    /\ ~stdin
    /\ stdin' = TRUE
    /\ UNCHANGED <<launch, hnd, queue_id, prev_pos, queue_in, queue_out,
                   queue_err, loaded_filters, is_debug_enabled, now, nissued,
                   nwritten, used_ids, answerable, last_merge_id, broken,
                   ff_ids, abandoned, nchild, ncalls, lastCall>>

\* What one read of the child's stdout can hold before a response: nothing, or
\* the output of a source's print, which decodes to a record that is no dict.
Preludes == {<<>>, <<NonMapping>>}

\* Process.pipe_data_received on stdout: every record decoded from the data
\* read is put in _queue_out, in order.  The child writes after it has read
\* something, and answers a request once.
ChildAnswer ==
    /\ ncalls < MaxCalls
    /\ hnd
    /\ stdin
    /\ nchild < MaxChild
    /\ \E q \in answerable :
           /\ \E pre \in Preludes, x \in Answers(q) :
                  queue_out' = queue_out \o pre \o <<x>>
           /\ answerable' = answerable \ {q}
    /\ nchild' = nchild + 1
    /\ UNCHANGED <<launch, hnd, stdin, queue_id, prev_pos, queue_in, queue_err,
                   loaded_filters, is_debug_enabled, now, nissued, nwritten,
                   used_ids, last_merge_id, broken, ff_ids, abandoned, ncalls,
                   lastCall>>

ChildContaminates ==
    /\ ncalls < MaxCalls
    /\ hnd
    /\ stdin
    /\ nwritten > 0
    /\ nchild < MaxChild
    /\ \E x \in Contaminations : queue_out' = Append(queue_out, x)
    /\ nchild' = nchild + 1
    /\ UNCHANGED <<launch, hnd, stdin, queue_id, prev_pos, queue_in, queue_err,
                   loaded_filters, is_debug_enabled, now, nissued, nwritten,
                   used_ids, answerable, last_merge_id, broken, ff_ids,
                   abandoned, ncalls, lastCall>>

\* Process.pipe_data_received on stderr: the text is put in _queue_err
ChildStderr ==
    /\ ncalls < MaxCalls
    /\ hnd
    /\ stdin
    /\ nwritten > 0
    /\ nchild < MaxChild
    /\ queue_err' = Append(queue_err, ErrText(nchild + 1))
    /\ nchild' = nchild + 1
    /\ UNCHANGED <<launch, hnd, stdin, queue_id, prev_pos, queue_in, queue_out,
                   loaded_filters, is_debug_enabled, now, nissued, nwritten,
                   used_ids, answerable, last_merge_id, broken, ff_ids,
                   abandoned, ncalls, lastCall>>

Next ==
    \/ enable_logging
    \/ add_source
    \/ add_filter
    \/ set_source_attributes
    \/ set_custom
    \/ on_event
    \/ MergeResults
    \/ _connect_stdin
    \/ ChildAnswer
    \/ ChildContaminates
    \/ ChildStderr

Spec == Init /\ [][Next]_vars

-----------------------------------------------------------------------------
(* Vocabulary of the properties *)

IsMerge == lastCall.op = "merge_results"

\* The value merge_results returns for "still async, try again later"
RetryLater == <<TRUE, FALSE, <<>>>>

\* x['queue_id'] raises nothing
HasId(x) == x.mapping /\ "queue_id" \in x.keys

\* The frames of a drain pass that carry the id q, by their place in the queue
Found(outs, q) == {i \in 1..Len(outs) : HasId(outs[i]) /\ outs[i].queue_id = q}

\* The place of the first frame that carries the id q
FirstFound(outs, q) == CHOOSE i \in Found(outs, q) : \A j \in Found(outs, q) : i <= j

\* Every frame of the pass is a dict with a 'queue_id' key
CleanPass(outs) == \A i \in 1..Len(outs) : HasId(outs[i])

\* The comprehension reaches a frame that is not a dict: every frame before it
\* is a dict with a 'queue_id' key
MeetsNonMapping(outs) ==
    \E i \in 1..Len(outs) :
        /\ ~outs[i].mapping
        /\ \A j \in 1..(i - 1) : HasId(outs[j])

\* The comprehension reaches a dict that has no 'queue_id' key
MeetsMissingId(outs) ==
    \E i \in 1..Len(outs) :
        /\ outs[i].mapping /\ "queue_id" \notin outs[i].keys
        /\ \A j \in 1..(i - 1) : HasId(outs[j])

\* A call with event 'Async' at the position of the poll that is pending when
\* the call starts
RepeatsPendingPoll ==
    /\ IsMerge
    /\ lastCall.event = "Async"
    /\ lastCall.queue_id0 # NoId
    /\ lastCall.position = lastCall.prev_pos0

\* The number of times message m is in the sequence shown
Times(m, shown) == Cardinality({i \in 1..Len(shown) : shown[i] = m})

-----------------------------------------------------------------------------
(* C1 *)

\* The latest call was a merge_results call with event 'Async' that got no
\* matching response and returned (true, false, []).
LeftPending ==
    /\ IsMerge
    /\ lastCall.event = "Async"
    /\ lastCall.raised = "none"
    /\ lastCall.ret = RetryLater

\* C1: when a merge_results call with event 'Async' got no matching response,
\* the call that immediately follows it, if it is a merge_results call with
\* event 'Async' and the same position, does not call _put: it puts nothing in
\* _queue_in, writes nothing to stdin, and fetches with the first call's id.
C1_ReusesPendingId ==
    [][(/\ LeftPending
        /\ ncalls' = ncalls + 1
        /\ IsMerge'
        /\ lastCall'.event = "Async"
        /\ lastCall'.position = lastCall.position) =>
           /\ ~lastCall'.put
           /\ lastCall'.enq = <<>>
           /\ lastCall'.wrote = <<>>
           /\ lastCall'.fetched = lastCall.fetched]_vars

C1_Witness ==
    /\ RepeatsPendingPoll
    /\ lastCall.hnd0
    /\ lastCall.drained
    /\ lastCall.ret = RetryLater
    /\ queue_id = lastCall.queue_id0

-----------------------------------------------------------------------------
(* C2 *)

\* The call sent one merge_results envelope carrying its context and the id
\* generated in this call (the latest clock reading), the latest one issued,
\* and fetched with that id.
IssuedFreshEnvelope ==
    /\ lastCall.put
    /\ lastCall.put_id # NoId
    /\ lastCall.put_id = now
    /\ lastCall.enq =
           <<Tagged(Envelope("merge_results",
                             <<Context(lastCall.event, lastCall.position)>>,
                             lastCall.put_id),
                    nissued)>>
    /\ lastCall.fetched = lastCall.put_id

\* C2 as stated: every merge_results call whose event is not 'Async' issues a
\* fresh merge_results envelope with a newly generated queue_id.
C2_Original ==
    (IsMerge /\ lastCall.event # "Async") => IssuedFreshEnvelope

\* C2 amended: every merge_results call whose event is not 'Async', made while
\* the process handle is live, issues a fresh merge_results envelope with a
\* newly generated queue_id, whatever the previous position was and whether or
\* not a poll is pending.
C2_FreshEnvelopeWhileLive ==
    (IsMerge /\ lastCall.event # "Async" /\ lastCall.hnd0) => IssuedFreshEnvelope

C2_Witness ==
    /\ IsMerge
    /\ lastCall.event # "Async"
    /\ lastCall.hnd0
    /\ lastCall.queue_id0 # NoId
    /\ lastCall.position = lastCall.prev_pos0
    /\ IssuedFreshEnvelope

-----------------------------------------------------------------------------
(* C3 *)

\* C3: once a write to stdin has raised BrokenPipeError the handle is cleared
\* and stays cleared, and every call made with the handle cleared gets no id
\* from _put, puts nothing in _queue_in, writes nothing and raises nothing.
C3_DeadAfterBrokenPipe ==
    /\ broken => ~hnd
    /\ ~lastCall.hnd0 =>
           /\ ~hnd
           /\ lastCall.put_id = NoId
           /\ lastCall.enq = <<>>
           /\ lastCall.wrote = <<>>
           /\ lastCall.lost = <<>>
           /\ lastCall.raised = "none"

C3_Witness ==
    /\ broken
    /\ ~lastCall.hnd0
    /\ lastCall.op = "enable_logging"
    /\ lastCall.put
    /\ lastCall.put_id = NoId

-----------------------------------------------------------------------------
(* C4 *)

\* C4: the k-th envelope written to stdin is the k-th envelope issued: every
\* call writes the envelopes that follow the ones already written, in issue
\* order and without a gap or a repeat, and _queue_in holds the latest issued
\* envelopes in issue order.
C4_WrittenInIssueOrder ==
    /\ \A i \in 1..Len(lastCall.wrote) :
           lastCall.wrote[i] = nwritten - Len(lastCall.wrote) + i
    /\ \A i \in 1..Len(lastCall.lost) : lastCall.lost[i] = nwritten + 1
    /\ \A i \in 1..Len(queue_in) :
           queue_in[i].seq = nissued - Len(queue_in) + i
    /\ nwritten <= nissued

C4_Witness ==
    /\ Len(lastCall.wrote) >= 2
    /\ lastCall.wrote[1] = 1
    /\ nwritten = nissued

-----------------------------------------------------------------------------
(* C5 *)

\* A poll with id q is pending when the call starts, the call drains the
\* inbound queue, every frame drained is a dict with a 'queue_id' key, and the
\* first frame carrying q is {is_async: false, merged_results: R}.
DrainsAnswerOfPendingPoll ==
    /\ IsMerge
    /\ lastCall.drained
    /\ lastCall.queue_id0 # NoId
    /\ CleanPass(lastCall.outs)
    /\ Found(lastCall.outs, lastCall.queue_id0) # {}
    /\ LET f == lastCall.outs[FirstFound(lastCall.outs, lastCall.queue_id0)]
       IN  f.keys = AllKeys /\ ~f.is_async

ReturnsAnswerOfPendingPoll ==
    LET f == lastCall.outs[FirstFound(lastCall.outs, lastCall.queue_id0)]
    IN  lastCall.ret = <<FALSE, FALSE, f.merged_results>>

-----------------------------------------------------------------------------
(* C6 *)

\* C6 as stated: every merge_results call made with the handle cleared returns
\* (false, false, []).
C6_Original == (IsMerge /\ ~lastCall.hnd0) => lastCall.ret = NoProcess

-----------------------------------------------------------------------------
(* C7 *)

\* C7: when the drain pass of _get reaches a frame that is not a dict, the
\* merge_results call raises nothing, shows the contamination diagnostic once
\* and returns (true, false, []).
C7_NonMappingIsSurfaced ==
    (IsMerge /\ lastCall.drained /\ MeetsNonMapping(lastCall.outs)) =>
        /\ lastCall.raised = "none"
        /\ Times(ContaminatedMessage, lastCall.shown) = 1
        /\ lastCall.ret = RetryLater

C7_Witness ==
    /\ IsMerge
    /\ lastCall.drained
    /\ MeetsNonMapping(lastCall.outs)
    /\ lastCall.ret = RetryLater

-----------------------------------------------------------------------------
(* C8 *)

\* C8 as stated: if the child fails to launch, no _put produces an id, nothing
\* accumulates in _queue_in, and merge_results returns (false, false, []).
C8_Original ==
    launch = "failed" =>
        /\ lastCall.put_id = NoId
        /\ queue_in = <<>>
        /\ IsMerge => lastCall.ret = NoProcess

-----------------------------------------------------------------------------
(* C9 *)

-----------------------------------------------------------------------------
(* C10 *)

\* The drain pass, all of whose frames are dicts with a 'queue_id' key, has a
\* frame with the fetched id.
DrainsAnswer ==
    /\ IsMerge
    /\ lastCall.drained
    /\ CleanPass(lastCall.outs)
    /\ Found(lastCall.outs, lastCall.fetched) # {}

-----------------------------------------------------------------------------
(* C11 *)

\* The call returned the payload of a drained frame: _get gave a match and the
\* return expression raised nothing.
ReturnsPayload ==
    /\ DrainsAnswer
    /\ lastCall.raised = "none"

\* C11 as stated: a merge_results call that finds a poll with id q pending and
\* has another position sends a fresh envelope whose id is not q, q is no
\* longer the tracked id after it, and no merge_results call, this one or a
\* later one, returns a payload fetched under an id that was abandoned so.
C11_Original ==
    /\ (IsMerge /\ lastCall.queue_id0 # NoId
               /\ lastCall.position # lastCall.prev_pos0) =>
           /\ lastCall.put
           /\ Len(lastCall.enq) = 1
           /\ lastCall.put_id \notin {NoId, lastCall.queue_id0}
           /\ queue_id # lastCall.queue_id0
    /\ ReturnsPayload => lastCall.fetched \notin abandoned

-----------------------------------------------------------------------------
(* C12 *)

\* C12 as stated: no call raises an exception to its caller.
C12_Original == lastCall.raised = "none"

-----------------------------------------------------------------------------
(* C13 *)

\* The step is a method call
CallStep == ncalls' = ncalls + 1

-----------------------------------------------------------------------------
(* C14 *)

\* The places, in a drain pass, of the well-formed responses to the id q
Responses(outs, q) ==
    {i \in 1..Len(outs) : outs[i].mapping /\ outs[i].keys = AllKeys
                                          /\ outs[i].queue_id = q}

\* C14 as stated: the response to a pending poll is never lost.  The child
\* answers a request once and a drain pass keeps nothing for later, so the
\* merge_results call with event 'Async' that drains a well-formed response to
\* the id it fetches, whatever other frames share the pass, returns that
\* response and not (true, false, []).
C14_Original ==
    (/\ IsMerge
     /\ lastCall.event = "Async"
     /\ lastCall.drained
     /\ Responses(lastCall.outs, lastCall.fetched) # {}) =>
        /\ lastCall.raised = "none"
        /\ \E i \in Responses(lastCall.outs, lastCall.fetched) :
               lastCall.ret = <<lastCall.outs[i].is_async,
                                lastCall.outs[i].is_async,
                                lastCall.outs[i].merged_results>>

-----------------------------------------------------------------------------
(* C15 *)

\* C15 as stated: the tracked id is empty or is the id of the merge_results
\* envelope dispatched last, and it is not the id of an envelope of a call
\* that only dispatches.
C15_Original ==
    /\ queue_id = NoId \/ queue_id = last_merge_id
    /\ queue_id # NoId => queue_id \notin ff_ids

-----------------------------------------------------------------------------
(* C16 *)

FireAndForget ==
    {"enable_logging", "add_source", "add_filter", "set_source_attributes",
     "set_custom", "on_event"}

\* C16: a call of enable_logging, add_source, set_source_attributes,
\* set_custom, on_event, or add_filter with a new path, made with a live
\* handle, issues exactly one envelope, named after the method, which is in
\* _queue_in or was handed to stdin; it leaves _queue_id, _prev_pos, _queue_out
\* and _queue_err as they were and fetches nothing.
C16_DispatchOnlyEnqueues ==
    [][(CallStep /\ lastCall'.op \in FireAndForget /\ lastCall'.put /\ hnd) =>
           /\ Len(lastCall'.enq) = 1
           /\ lastCall'.enq[1].msg.name = lastCall'.op
           /\ lastCall'.enq[1].seq = nissued + 1
           /\ nissued' = nissued + 1
           /\ Len(queue_in') + Len(lastCall'.wrote) + Len(lastCall'.lost)
                  = Len(queue_in) + 1
           /\ ~lastCall'.drained
           /\ lastCall'.fetched = NoId
           /\ lastCall'.ret = NoRet
           /\ UNCHANGED <<queue_id, prev_pos, queue_out, queue_err>>]_vars

C16_Witness ==
    /\ lastCall.op = "on_event"
    /\ lastCall.hnd0
    /\ Len(lastCall.enq) = 1
    /\ lastCall.wrote # <<>>
    /\ queue_id # NoId
    /\ queue_out # <<>>

-----------------------------------------------------------------------------
(* C17 *)

\* C17 as stated: the envelopes _put has dispatched carry pairwise different
\* queue_ids: there are as many ids as envelopes.
C17_Original == Cardinality(used_ids) = nissued

-----------------------------------------------------------------------------
(* C18 *)

\* C18: _loaded_filters never loses a path, and an add_filter call either is
\* the first for its path (it adds the path, calls _put once, and what _put
\* issues is the 'add_filter' envelope of that very path) or changes nothing
\* and does not call _put.  A path once added stays, so at most one
\* 'add_filter' envelope is dispatched for each path.
C18_AddFilterOncePerPath ==
    [][/\ loaded_filters \subseteq loaded_filters'
       /\ (CallStep /\ lastCall'.op = "add_filter") =>
              \/ /\ lastCall'.put
                 /\ Len(lastCall'.enq) <= 1
                 /\ \E path \in Paths \ loaded_filters :
                        /\ loaded_filters' = loaded_filters \cup {path}
                        /\ \A i \in 1..Len(lastCall'.enq) :
                               lastCall'.enq[i].msg =
                                   Envelope("add_filter", <<PathArg(path)>>,
                                            lastCall'.put_id)
              \/ /\ ~lastCall'.put
                 /\ lastCall'.enq = <<>>
                 /\ UNCHANGED <<launch, hnd, stdin, queue_id, prev_pos, queue_in,
                                queue_out, queue_err, loaded_filters,
                                is_debug_enabled, now, nissued, nwritten>>]_vars

C18_Witness ==
    /\ lastCall.op = "add_filter"
    /\ ~lastCall.put
    /\ lastCall.hnd0
    /\ Cardinality(loaded_filters) = 1
    /\ nissued = 1
    /\ ncalls = 2

-----------------------------------------------------------------------------
(* C19 *)

\* C19: every value merge_results returns is a 3-tuple: a frame that matched
\* the fetched id is a dict with the key 'queue_id', which is truthy, so the
\* alternative (False, []) of the return expression is never taken.
C19_ReturnsTriple ==
    /\ (IsMerge /\ lastCall.raised = "none") => Len(lastCall.ret) = 3
    /\ DrainsAnswer =>
           Truthy(lastCall.outs[FirstFound(lastCall.outs, lastCall.fetched)])

C19_Witness ==
    /\ ReturnsPayload
    /\ ~lastCall.put
    /\ Len(lastCall.ret) = 3
    /\ lastCall.ret[3] = <<"foo", "bar">>

=============================================================================
